---- MODULE Spec2Model ----
(***************************************************************************)
(* Model of the Gomall Kubernetes monitor (k8s_monitor.py) driven by the   *)
(* continuous runner (run_tests.py).                                       *)
(*                                                                         *)
(* Text is modelled as a sequence of one-character strings, so that        *)
(* str.strip, str.split and int() are computed character by character.     *)
(* Control is modelled at statement granularity inside                     *)
(* test_service_connectivity, because a KeyboardInterrupt may be raised    *)
(* at any blocking call of the main thread.                                *)
(***************************************************************************)
EXTENDS Integers, Sequences, FiniteSets, TLC

(* ------------------------------ bounds -------------------------------- *)

\* iterations of the `while True` loop of continuous_monitor that are explored
MaxIter == 2
\* number of '\n'-separated lines of the kubectl output that are explored
MaxLines == 3
\* measured wall-clock times (whole seconds) range over 0..MaxMeasured
MaxMeasured == 1

(* ------------------------- program constants -------------------------- *)

PortOffset == 8000
MinFields == 5
DefaultTcpTimeout == 5
DefaultHttpTimeout == 10
DefaultProbeTimeout == 10
HttpOk == 200

(* --------------------------- text helpers ----------------------------- *)

\* the characters str.isspace holds of, among those of the model's alphabet
Whitespace == {" ", "\t", "\r", "\n"}

IsSpace(c) == c \in Whitespace

Digits == <<"0", "1", "2", "3", "4", "5", "6", "7", "8", "9">>

IsDigit(c) == \E d \in 1..Len(Digits) : Digits[d] = c

DigitVal(c) == (CHOOSE d \in 1..Len(Digits) : Digits[d] = c) - 1

RECURSIVE ScanUp(_, _, _, _)
\* the first index from k upwards whose character is (member) or is not
\* (~member) in chars; Len(s)+1 when there is none
ScanUp(s, k, chars, member) ==
    IF k > Len(s) THEN k
    ELSE IF (s[k] \in chars) = member THEN k
    ELSE ScanUp(s, k + 1, chars, member)

RECURSIVE ScanDown(_, _, _, _)
\* the last index from k downwards with that property; 0 when there is none
ScanDown(s, k, chars, member) ==
    IF k < 1 THEN 0
    ELSE IF (s[k] \in chars) = member THEN k
    ELSE ScanDown(s, k - 1, chars, member)

\* str.strip(): leading and trailing whitespace removed
Strip(s) ==
    SubSeq(s, ScanUp(s, 1, Whitespace, FALSE), ScanDown(s, Len(s), Whitespace, FALSE))

\* str.split(sep) with an explicit one-character separator: empty parts are kept
RECURSIVE SplitOn(_, _)
SplitOn(s, sep) ==
    LET k == ScanUp(s, 1, {sep}, TRUE)
    IN  IF k > Len(s) THEN <<s>>
        ELSE <<SubSeq(s, 1, k-1)>> \o SplitOn(SubSeq(s, k+1, Len(s)), sep)

\* str.split() without argument: runs of whitespace separate, no empty parts
RECURSIVE SplitWs(_)
SplitWs(s) ==
    LET b == ScanUp(s, 1, Whitespace, FALSE)
        e == ScanUp(s, b, Whitespace, TRUE)
    IN  IF b > Len(s) THEN <<>>
        ELSE <<SubSeq(s, b, e-1)>> \o SplitWs(SubSeq(s, e, Len(s)))

\* int(w) raises ValueError unless w is a decimal numeral
IsInt(w) == w # <<>> /\ \A k \in 1..Len(w) : IsDigit(w[k])

RECURSIVE ToInt(_)
ToInt(w) ==
    IF w = <<>> THEN 0
    ELSE 10 * ToInt(SubSeq(w, 1, Len(w)-1)) + DigitVal(w[Len(w)])

(* ------------------------- PodStatus, parsing -------------------------- *)

Running == <<"R", "u", "n", "n", "i", "n", "g">>
Pending == <<"P", "e", "n", "d", "i", "n", "g">>

\* run_kubectl_command: (returncode == 0, stdout.strip()); a timeout or any
\* other exception gives (False, message)
run_kubectl_command(cmd) ==
    IF cmd.kind = "exit"
    THEN [success |-> cmd.rc = 0, output |-> Strip(cmd.stdout)]
    ELSE [success |-> FALSE, output |-> <<>>]

PodStatus(parts) ==
    [name |-> parts[1], ready |-> parts[2], status |-> parts[3],
     restarts |-> ToInt(parts[4]), age |-> parts[5]]

\* `for line in output.split('\n'): if line.strip(): parts = line.split()`:
\* the fields of every line, none for a line that is blank after strip()
LineParts(output) ==
    LET lines == SplitOn(output, "\n")
    IN  [k \in 1..Len(lines) |-> IF Strip(lines[k]) # <<>> THEN SplitWs(lines[k]) ELSE <<>>]

\* a variant that demands more than five fields of a row
RecordRowsOffByOne(output) ==
    SelectSeq(LineParts(output), LAMBDA parts : Len(parts) > MinFields)

\* `if len(parts) >= 5:` the rows that get_pod_status turns into a record
RecordRows(output) ==
    SelectSeq(LineParts(output), LAMBDA parts : Len(parts) >= MinFields)

\* get_pod_status: [] when the command failed; ValueError out of int() on
\* the first row whose fourth field is no numeral
get_pod_status(cmd) ==
    LET res  == run_kubectl_command(cmd)
        rows == RecordRows(res.output)
    IN  IF ~res.success THEN [kind |-> "return", exc |-> "none", pods |-> <<>>]
        ELSE IF \E k \in 1..Len(rows) : ~IsInt(rows[k][4])
        THEN [kind |-> "raise", exc |-> "ValueError", pods |-> <<>>]
        ELSE [kind |-> "return", exc |-> "none",
              pods |-> [k \in 1..Len(rows) |-> PodStatus(rows[k])]]

\* the loop body's condition: pod.status == "Running" and
\* pod.ready.split('/')[0] == pod.ready.split('/')[1]; the second conjunct is
\* evaluated only for a Running pod and raises IndexError without a '/'
PodRaises(pod) == pod.status = Running /\ Len(SplitOn(pod.ready, "/")) < 2

PodHealthy(pod) ==
    /\ pod.status = Running
    /\ SplitOn(pod.ready, "/")[1] = SplitOn(pod.ready, "/")[2]

\* check_pods_health, given what its call of get_pod_status did: False for
\* no pods, else the loop over all pods (it does not stop at the first
\* unhealthy pod), then all_healthy
check_pods_health(got) ==
    IF got.kind = "raise" THEN [kind |-> "raise", exc |-> got.exc, val |-> FALSE]
    ELSE IF got.pods = <<>> THEN [kind |-> "return", exc |-> "none", val |-> FALSE]
    ELSE IF \E k \in 1..Len(got.pods) : PodRaises(got.pods[k])
    THEN [kind |-> "raise", exc |-> "IndexError", val |-> FALSE]
    ELSE [kind |-> "return", exc |-> "none",
          val |-> \A k \in 1..Len(got.pods) : PodHealthy(got.pods[k])]

(* ------------------------ kubectl pod listings ------------------------- *)

RECURSIVE IntToStr(_)
\* f"{n}" for a natural number
IntToStr(n) ==
    IF n < 10 THEN <<Digits[n + 1]>>
    ELSE IntToStr(n \div 10) \o <<Digits[(n % 10) + 1]>>

RECURSIVE Join(_, _)
\* sep.join(words)
Join(words, sep) ==
    IF words = <<>> THEN <<>>
    ELSE IF Len(words) = 1 THEN words[1]
    ELSE words[1] \o sep \o Join(Tail(words), sep)

Ready(n, m) == IntToStr(n) \o <<"/">> \o IntToStr(m)

PodLine(ready, status, restarts) ==
    Join(<<<<"p">>, ready, status, restarts, <<"5", "d">>>>, <<" ">>)

\* the lines a listing is made of: a healthy row, a Running row that is not
\* ready, a ready row that is Pending, a Running row whose ready field has no
\* '/', a wide row with leading blanks, tabs, a two-digit restart count and
\* a sixth field, a row whose restart count is no numeral, a four-field row
\* and a line of whitespace
Lines ==
    {PodLine(Ready(1, 1), Running, <<"0">>),
     PodLine(Ready(1, 2), Running, <<"0">>),
     PodLine(Ready(1, 1), Pending, <<"0">>),
     PodLine(<<"1">>, Running, <<"0">>),
     <<" ">> \o Join(<<<<"q">>, Ready(2, 2), Running, <<"1", "2">>,
                      <<"1", "h">>, <<"i", "p">>>>, <<"\t", " ">>),
     PodLine(Ready(1, 1), Running, <<"x">>),
     Join(<<<<"p">>, Ready(1, 1), Running, <<"0">>>>, <<" ">>),
     <<" ", "\t">>}

\* what kubectl may write to stdout: up to MaxLines lines, newline-terminated
Stdouts ==
    {Join(ls, <<"\n">>) \o <<"\n">> :
        ls \in UNION {[1..n -> Lines] : n \in 0..MaxLines}}

\* the outcomes of subprocess.run for `kubectl get pods`: exit 0 with a
\* listing, a non-zero exit, TimeoutExpired
KubectlRuns ==
    {[kind |-> "exit", rc |-> 0, stdout |-> s] : s \in Stdouts}
    \cup {[kind |-> "exit", rc |-> 1, stdout |-> <<>>],
          [kind |-> "timeout", rc |-> 1, stdout |-> <<>>]}

NoCmd == [kind |-> "none", rc |-> 1, stdout |-> <<>>]

(* ----------------------------- the probes ------------------------------ *)

Outcome(success, text, arg, measured, secs) ==
    [success |-> success, message |-> [text |-> text, arg |-> arg],
     elapsed |-> [measured |-> measured, secs |-> secs]]

NoOutcome == Outcome(FALSE, "none", <<>>, FALSE, 0)

\* what can happen to the TCP connect to localhost: it completes, it is
\* refused, it does not complete within the socket timeout, or
\* socket.socket() itself fails with an OSError
SockEvents == {"connected", "refused", "timedout", "oserror"}

\* socket.socket() followed by sock.connect_ex(): connect_ex returns the
\* error indicator of the C-level connect instead of raising, and for a
\* connect that times out this indicator is EAGAIN (it raises nothing)
connect_ex(ev) ==
    CASE ev = "connected"   -> [kind |-> "return", code |-> 0, exc |-> "none"]
      [] ev = "refused"     -> [kind |-> "return", code |-> 111, exc |-> "none"]
      [] ev = "timedout"    -> [kind |-> "return", code |-> 11, exc |-> "none"]
      [] OTHER              -> [kind |-> "raise", code |-> 0, exc |-> "OSError"]

\* test_port_connectivity(host, port, timeout); t is the wall-clock time
\* measured around the connect
test_port_connectivity(ev, t, timeout) ==
    LET result == connect_ex(ev)
    IN  IF result.kind = "return"
        THEN IF result.code = 0
             THEN Outcome(TRUE, "Port open", <<>>, TRUE, t)
             ELSE Outcome(FALSE, "Port closed", <<>>, TRUE, t)
        ELSE IF result.exc = "socket.timeout"
        THEN Outcome(FALSE, "Connection timeout", <<>>, FALSE, timeout)
        ELSE Outcome(FALSE, "str(e)", <<result.exc>>, FALSE, 0)

\* the direct base classes of the exceptions requests.get raises
Bases(cls) ==
    CASE cls = "ConnectTimeout"   -> {"ConnectionError", "Timeout"}
      [] cls = "ReadTimeout"      -> {"Timeout"}
      [] cls = "ConnectionError"  -> {"RequestException"}
      [] cls = "Timeout"          -> {"RequestException"}
      [] cls = "TooManyRedirects" -> {"RequestException"}
      [] cls = "RequestException" -> {"Exception"}
      [] OTHER                    -> {}

RECURSIVE IsInstance(_, _)
\* isinstance(e, cls) for an exception e of class exc: what an except clause tests
IsInstance(exc, cls) ==
    exc = cls \/ \E b \in Bases(exc) : IsInstance(b, cls)

HttpStatuses == {200, 404, 503}
HttpExceptions == {"ConnectionError", "ConnectTimeout", "ReadTimeout", "TooManyRedirects"}

\* what requests.get does: a response with a status code, or an exception
HttpEvents ==
    {[kind |-> "response", status |-> c, exc |-> "response"] : c \in HttpStatuses}
    \cup {[kind |-> "raise", status |-> 0, exc |-> x] : x \in HttpExceptions}

\* test_http_service(url, timeout): the except clauses are tried in order
test_http_service(ev, t, timeout) ==
    IF ev.kind = "response"
    THEN IF ev.status = HttpOk
         THEN Outcome(TRUE, "HTTP", IntToStr(ev.status), TRUE, t)
         ELSE Outcome(FALSE, "HTTP", IntToStr(ev.status), TRUE, t)
    ELSE IF IsInstance(ev.exc, "ConnectionError")
    THEN Outcome(FALSE, "Connection refused", <<>>, FALSE, 0)
    ELSE IF IsInstance(ev.exc, "Timeout")
    THEN Outcome(FALSE, "Request timeout", <<>>, FALSE, timeout)
    ELSE Outcome(FALSE, "str(e)", <<ev.exc>>, FALSE, 0)

(* ------------------------- the service registry ------------------------ *)

ServiceTest(name, port, service_type) ==
    [name |-> name, port |-> port, service_type |-> service_type, test_endpoint |-> "/"]

services ==
    << ServiceTest("frontend", 8080, "http"),
       ServiceTest("cart", 8883, "grpc"),
       ServiceTest("checkout", 8884, "grpc"),
       ServiceTest("email", 8885, "grpc"),
       ServiceTest("order", 8885, "grpc"),
       ServiceTest("payment", 8886, "grpc"),
       ServiceTest("product", 8881, "grpc"),
       ServiceTest("user", 8882, "grpc") >>

\* a variant that forgets the offset
LocalPortNoOffset(service) == service.port

\* local_port = 8000 + service.port
LocalPort(service) == PortOffset + service.port

(* ------------------------------ the state ------------------------------ *)

VARIABLES
    pc,                     \* the statement the main thread is at
    iter,                   \* completed iterations of continuous_monitor's loop
    interrupted,            \* where SIGINT raised KeyboardInterrupt, "no" before
    cmd,                    \* what `kubectl get pods` did in this run
    pods,                   \* what get_pod_status did with it
    health,                 \* what check_pods_health did with it
    pods_healthy,           \* run_full_check's local
    connectivity_tests_passed, \* run_full_check's local
    healthy,                \* what run_full_check returned last
    i,                      \* position of run_connectivity_tests' for loop
    all_tests_passed,       \* run_connectivity_tests' local
    table_data,             \* run_connectivity_tests' rows, one per probed service
    procs,                  \* the kubectl port-forward children of this run
    port_forward_process,   \* test_service_connectivity's local, 0 for None
    pending,                \* what test_service_connectivity is about to return or raise
    netcall                 \* the network call test_service_connectivity made last

vars == <<pc, iter, interrupted, cmd, pods, health, pods_healthy, connectivity_tests_passed,
          healthy, i, all_tests_passed, table_data, procs, port_forward_process,
          pending, netcall>>

NoPods == [kind |-> "none", exc |-> "none", pods |-> <<>>]
NoHealth == [kind |-> "none", exc |-> "none", val |-> FALSE]
NoPending == [kind |-> "none", outcome |-> NoOutcome, exc |-> "none"]
NoCall == [fn |-> "none", port |-> 0, timeout |-> 0, event |-> "none"]

Returning(outcome) == [kind |-> "return", outcome |-> outcome, exc |-> "none"]
Raising(exc) == [kind |-> "raise", outcome |-> NoOutcome, exc |-> exc]

Init ==
    /\ pc = "loop"
    /\ iter = 0
    /\ interrupted = "no"
    /\ cmd = NoCmd
    /\ pods = NoPods
    /\ health = NoHealth
    /\ pods_healthy = FALSE
    /\ connectivity_tests_passed = FALSE
    /\ healthy = FALSE
    /\ i = 1
    /\ all_tests_passed = TRUE
    /\ table_data = <<>>
    /\ procs = <<>>
    /\ port_forward_process = 0
    /\ pending = NoPending
    /\ netcall = NoCall

(* ------------------------- run_full_check ------------------------------ *)

\* continuous_monitor calls run_full_check; os.path.exists(kubeconfig_path)
\* decides whether it returns False at once. The locals of the calls of the
\* previous iteration are gone, and so are its children, which have exited.
RunFullCheck ==
    /\ pc = "loop"
    /\ iter < MaxIter
    /\ \E exists \in BOOLEAN :
          IF exists
          THEN /\ pc' = "svcinfo"
               /\ UNCHANGED <<healthy, iter>>
          ELSE /\ pc' = "sleep"
               /\ healthy' = FALSE
               /\ iter' = iter + 1
    /\ pods_healthy' = FALSE
    /\ connectivity_tests_passed' = FALSE
    /\ i' = 1
    /\ all_tests_passed' = TRUE
    /\ table_data' = <<>>
    /\ procs' = <<>>
    /\ port_forward_process' = 0
    /\ pending' = NoPending
    /\ netcall' = NoCall
    /\ UNCHANGED <<interrupted, cmd, pods, health>>

\* get_service_info prints a table and changes nothing
GetServiceInfo ==
    /\ pc = "svcinfo"
    /\ pc' = "pods"
    /\ UNCHANGED <<iter, interrupted, cmd, pods, health, pods_healthy, connectivity_tests_passed,
                   healthy, i, all_tests_passed, table_data, procs, port_forward_process,
                   pending, netcall>>

\* pods_healthy = self.check_pods_health(); an exception it raises is caught nowhere
CheckPodsHealth ==
    /\ pc = "pods"
    /\ \E c \in KubectlRuns :
          /\ cmd' = c
          /\ pods' = get_pod_status(c)
          /\ health' = check_pods_health(pods')
    /\ IF health'.kind = "raise"
       THEN pc' = "crashed" /\ UNCHANGED pods_healthy
       ELSE pc' = "branch" /\ pods_healthy' = health'.val
    /\ UNCHANGED <<iter, interrupted, connectivity_tests_passed, healthy, i,
                   all_tests_passed, table_data, procs, port_forward_process,
                   pending, netcall>>

\* a variant that runs the connectivity tests whatever the pods' health
RunTestsAlways ==
    /\ pc' = "conn"
    /\ i' = 1
    /\ all_tests_passed' = TRUE
    /\ table_data' = <<>>
    /\ UNCHANGED connectivity_tests_passed

\* `if pods_healthy:` run_connectivity_tests() else connectivity_tests_passed = False
\* (the pod listing, a local of get_pod_status, is gone by now)
RunTestsIfHealthy ==
    IF pods_healthy
    THEN /\ pc' = "conn"
         /\ i' = 1
         /\ all_tests_passed' = TRUE
         /\ table_data' = <<>>
         /\ UNCHANGED connectivity_tests_passed
    ELSE /\ pc' = "summary"
         /\ connectivity_tests_passed' = FALSE
         /\ UNCHANGED <<i, all_tests_passed, table_data>>

Branch ==
    /\ pc = "branch"
    /\ RunTestsIfHealthy
    /\ cmd' = NoCmd
    /\ pods' = NoPods
    /\ health' = NoHealth
    /\ UNCHANGED <<iter, interrupted, pods_healthy, healthy, procs,
                   port_forward_process, pending, netcall>>

\* the value run_full_check returns after the summary
FullCheckResult == pods_healthy /\ connectivity_tests_passed

\* the summary, the return to continuous_monitor
Summary ==
    /\ pc = "summary"
    /\ healthy' = FullCheckResult
    /\ iter' = iter + 1
    /\ pc' = "sleep"
    /\ UNCHANGED <<interrupted, cmd, pods, health, pods_healthy, connectivity_tests_passed,
                   i, all_tests_passed, table_data, procs, port_forward_process,
                   pending, netcall>>

\* time.sleep(interval) runs out
Sleep ==
    /\ pc = "sleep"
    /\ pc' = "loop"
    /\ UNCHANGED <<iter, interrupted, cmd, pods, health, pods_healthy, connectivity_tests_passed,
                   healthy, i, all_tests_passed, table_data, procs, port_forward_process,
                   pending, netcall>>

(* ---------------------- run_connectivity_tests -------------------------- *)

\* `for service in self.services:` the next service enters
\* test_service_connectivity, where port_forward_process = None
ForService ==
    /\ pc = "conn"
    /\ i <= Len(services)
    /\ pc' = "spawn"
    /\ port_forward_process' = 0
    /\ pending' = NoPending
    /\ UNCHANGED <<iter, interrupted, cmd, pods, health, pods_healthy, connectivity_tests_passed,
                   healthy, i, all_tests_passed, table_data, procs, netcall>>

\* the loop is exhausted: run_connectivity_tests returns all_tests_passed
TestsDone ==
    /\ pc = "conn"
    /\ i > Len(services)
    /\ connectivity_tests_passed' = all_tests_passed
    /\ pc' = "summary"
    /\ UNCHANGED <<iter, interrupted, cmd, pods, health, pods_healthy, healthy, i,
                   all_tests_passed, table_data, procs, port_forward_process,
                   pending, netcall>>

(* --------------------- test_service_connectivity ------------------------ *)

Child(service) ==
    [name |-> service.name, local |-> LocalPort(service), remote |-> service.port,
     state |-> "running", terminated |-> 0, waited |-> 0]

\* port_forward_service, subprocess.Popen: the child runs, or Popen raises
\* OSError, which `except Exception` turns into (False, str(e), 0)
Spawn ==
    /\ pc = "spawn"
    /\ \/ /\ procs' = Append(procs, Child(services[i]))
          /\ pc' = "settle"
          /\ UNCHANGED pending
       \/ /\ pending' = Returning(Outcome(FALSE, "str(e)", <<"OSError">>, FALSE, 0))
          /\ pc' = "finally"
          /\ UNCHANGED procs
    /\ UNCHANGED <<iter, interrupted, cmd, pods, health, pods_healthy, connectivity_tests_passed,
                   healthy, i, all_tests_passed, table_data, port_forward_process, netcall>>

\* time.sleep(2) runs out, port_forward_service returns the child and
\* test_service_connectivity binds it to port_forward_process
Settle ==
    /\ pc = "settle"
    /\ port_forward_process' = Len(procs)
    /\ pc' = "net"
    /\ UNCHANGED <<iter, interrupted, cmd, pods, health, pods_healthy, connectivity_tests_passed,
                   healthy, i, all_tests_passed, table_data, procs, pending, netcall>>

\* which probe test_service_connectivity calls, and with which timeout: its
\* own timeout parameter is handed to either
ProbeCall(service, timeout) ==
    IF service.service_type = "http"
    THEN [fn |-> "test_http_service", port |-> LocalPort(service), timeout |-> timeout,
          event |-> "none"]
    ELSE [fn |-> "test_port_connectivity", port |-> LocalPort(service), timeout |-> timeout,
          event |-> "none"]

\* the network call returns an outcome (the probes catch every Exception);
\* run_connectivity_tests calls test_service_connectivity(service), that is
\* with the default timeout
NetCall ==
    /\ pc = "net"
    /\ LET call == ProbeCall(services[i], DefaultProbeTimeout)
       IN  \E t \in 0..MaxMeasured :
              IF call.fn = "test_http_service"
              THEN \E ev \in HttpEvents :
                      /\ netcall' = [call EXCEPT !.event = ev.exc]
                      /\ pending' = Returning(test_http_service(ev, t, call.timeout))
              ELSE \E ev \in SockEvents :
                      /\ netcall' = [call EXCEPT !.event = ev]
                      /\ pending' = Returning(test_port_connectivity(ev, t, call.timeout))
    /\ pc' = "finally"
    /\ UNCHANGED <<iter, interrupted, cmd, pods, health, pods_healthy, connectivity_tests_passed,
                   healthy, i, all_tests_passed, table_data, procs, port_forward_process>>

\* `finally: if port_forward_process:` whether the cleanup runs
CleanupNeeded == port_forward_process # 0

Signalled(p) == [p EXCEPT !.state = "terminated", !.terminated = @ + 1]
Reaped(p) == [p EXCEPT !.state = "reaped", !.waited = @ + 1]

\* port_forward_process.terminate()
Finally ==
    /\ pc = "finally"
    /\ IF CleanupNeeded
       THEN /\ procs' = [procs EXCEPT ![port_forward_process] = Signalled(@)]
            /\ pc' = "wait"
       ELSE /\ pc' = "leave"
            /\ UNCHANGED procs
    /\ UNCHANGED <<iter, interrupted, cmd, pods, health, pods_healthy, connectivity_tests_passed,
                   healthy, i, all_tests_passed, table_data, port_forward_process,
                   pending, netcall>>

\* port_forward_process.wait()
Wait ==
    /\ pc = "wait"
    /\ procs' = [procs EXCEPT ![port_forward_process] = Reaped(@)]
    /\ pc' = "leave"
    /\ UNCHANGED <<iter, interrupted, cmd, pods, health, pods_healthy, connectivity_tests_passed,
                   healthy, i, all_tests_passed, table_data, port_forward_process,
                   pending, netcall>>

\* the row run_connectivity_tests appends for a probed service
Row(service, outcome) ==
    [name |-> service.name, result |-> IF outcome.success THEN "PASS" ELSE "FAIL",
     port |-> service.port, type |-> service.service_type]

\* a variant that leaves the loop at the first failed service
NextServiceBreak(outcome) == IF outcome.success THEN i + 1 ELSE Len(services) + 1

\* where the for loop goes after a service's outcome: to the next service
NextService(outcome) == i + 1

\* control leaves test_service_connectivity: with the outcome, which the loop
\* body of run_connectivity_tests records, or with the pending exception,
\* which only continuous_monitor's `except KeyboardInterrupt` catches
Leave ==
    /\ pc = "leave"
    /\ IF pending.kind = "return"
       THEN /\ table_data' = Append(table_data, Row(services[i], pending.outcome))
            /\ all_tests_passed' = (all_tests_passed /\ pending.outcome.success)
            /\ i' = NextService(pending.outcome)
            /\ pc' = "conn"
            /\ port_forward_process' = 0
            /\ pending' = NoPending
            /\ netcall' = NoCall
       ELSE /\ pc' = "stopped"
            /\ UNCHANGED <<table_data, all_tests_passed, i, port_forward_process,
                           pending, netcall>>
    /\ UNCHANGED <<iter, interrupted, cmd, pods, health, pods_healthy,
                   connectivity_tests_passed, healthy, procs>>

(* --------------------------- KeyboardInterrupt -------------------------- *)

\* the blocking calls during which SIGINT is taken to arrive: the two
\* subprocess.run calls, the settle delay, the network call, Popen.wait and
\* the sleep between iterations
InterruptPoints == {"svcinfo", "pods", "settle", "net", "wait", "sleep"}

\* a variant without the finally block
UnwindNoFinally(at) == "stopped"

\* where a KeyboardInterrupt raised at statement at continues: inside the try
\* of test_service_connectivity the finally block runs next (`except
\* Exception` does not catch it); raised anywhere else, and inside the
\* finally block itself, it unwinds to continuous_monitor
Unwind(at) == IF at \in {"settle", "net"} THEN "finally" ELSE "stopped"

\* SIGINT arrives once; KeyboardInterrupt is raised in the main thread
Interrupt ==
    /\ interrupted = "no"
    /\ pc \in InterruptPoints
    /\ interrupted' = pc
    /\ pc' = Unwind(pc)
    /\ pending' = IF pc' = "finally" THEN Raising("KeyboardInterrupt") ELSE pending
    /\ UNCHANGED <<iter, cmd, pods, health, pods_healthy, connectivity_tests_passed, healthy,
                   i, all_tests_passed, table_data, procs, port_forward_process, netcall>>

Next ==
    \/ RunFullCheck
    \/ GetServiceInfo
    \/ CheckPodsHealth
    \/ Branch
    \/ ForService
    \/ TestsDone
    \/ Spawn
    \/ Settle
    \/ NetCall
    \/ Finally
    \/ Wait
    \/ Leave
    \/ Summary
    \/ Sleep
    \/ Interrupt

Spec == Init /\ [][Next]_vars

(* =============================== claims ================================ *)

\* control is inside test_service_connectivity
InProbe == pc \in {"spawn", "settle", "net", "finally", "wait", "leave"}

Stopped(p) == p.state = "reaped" /\ p.terminated = 1 /\ p.waited = 1

RegistryIndex(name) == CHOOSE k \in 1..Len(services) : services[k].name = name

\* C1: whenever control is outside test_service_connectivity, every
\* port-forward child that was spawned has been terminated and waited for
\* exactly once, whichever way the probe was left.
C1_TunnelAlwaysReleased ==
    ~InProbe => \A k \in 1..Len(procs) : Stopped(procs[k])

\* C2: the services are probed one at a time in registry order: at most one
\* tunnel is alive, every tunnel but the latest has been terminated and
\* waited for once and belongs to an earlier registry entry than its
\* successor, the rows follow the registry, and a finished run of
\* run_connectivity_tests has probed every service once, failures included.
C2_SerialProbes ==
    /\ Cardinality({k \in 1..Len(procs) : procs[k].state # "reaped"}) <= 1
    /\ \A k \in 1..(Len(procs) - 1) :
          /\ Stopped(procs[k])
          /\ RegistryIndex(procs[k].name) < RegistryIndex(procs[k+1].name)
    /\ Len(table_data) <= Len(services)
    /\ \A k \in 1..Len(table_data) : table_data[k].name = services[k].name
    /\ (pc \in {"summary", "sleep"} /\ pods_healthy) => Len(table_data) = Len(services)

C2_Witness ==
    /\ pc = "summary"
    /\ Len(table_data) = Len(services)
    /\ table_data[1].result = "FAIL"
    /\ table_data[Len(services)].result = "PASS"
    /\ Len(procs) = Len(services)

\* C3: a service that is not "http" is probed with the 5-second TCP timeout
\* and an "http" service with the 10-second HTTP timeout.
C3_TcpTimeoutIsFive ==
    /\ netcall.fn = "test_port_connectivity" => netcall.timeout = DefaultTcpTimeout
    /\ netcall.fn = "test_http_service" => netcall.timeout = DefaultHttpTimeout
    /\ DefaultTcpTimeout # DefaultHttpTimeout

\* the claim's health of one pod: phase Running and a ready field that is
\* some text, a '/', and the same text again
ClaimPodHealthy(pod) ==
    /\ pod.status = Running
    /\ \E k \in 1..Len(pod.ready) :
          /\ pod.ready[k] = "/"
          /\ SubSeq(pod.ready, 1, k-1) = SubSeq(pod.ready, k+1, Len(pod.ready))

\* C4: for every parsed pod list check_pods_health returns, and returns true
\* exactly when the list is non-empty and every pod is Running with equal
\* ready counts.
C4_FleetHealth ==
    (pc \in {"branch", "crashed"} /\ pods.kind = "return") =>
        /\ health.kind = "return"
        /\ health.val = (/\ pods.pods # <<>>
                         /\ \A k \in 1..Len(pods.pods) : ClaimPodHealthy(pods.pods[k]))

\* C5: while the pods are not known to be healthy (which includes a missing
\* kubeconfig) the run has started no tunnel and probed no service, and
\* run_full_check returns true exactly when the pods are healthy and every
\* service has a PASS row.
C5_SkipAndAggregate ==
    /\ ~pods_healthy => (procs = <<>> /\ table_data = <<>> /\ ~InProbe /\ pc # "conn")
    /\ pc = "sleep" =>
          (healthy <=> /\ pods_healthy
                       /\ Len(table_data) = Len(services)
                       /\ \A k \in 1..Len(table_data) : table_data[k].result = "PASS")

C5_Witness ==
    /\ pc = "summary"
    /\ ~pods_healthy
    /\ procs = <<>>
    /\ table_data = <<>>

\* C6: every exception of requests.get that is a Timeout gives
\* (False, "Request timeout", 10).
C6_TimeoutOutcome ==
    (/\ pc = "finally"
     /\ netcall.fn = "test_http_service"
     /\ IsInstance(netcall.event, "Timeout")) =>
        pending.outcome = Outcome(FALSE, "Request timeout", <<>>, FALSE, DefaultHttpTimeout)

\* C7: test_port_connectivity gives "Port open" with the measured time for a
\* completed connect, "Port closed" with the measured time for a refused
\* one, "Connection timeout" with the timeout as elapsed time for one that
\* timed out, and the error text with 0 for any other socket error.
C7_TcpClassification ==
    (pc = "finally" /\ netcall.fn = "test_port_connectivity") =>
        LET o == pending.outcome
        IN  CASE netcall.event = "connected" ->
                    o.success /\ o.message.text = "Port open" /\ o.elapsed.measured
              [] netcall.event = "refused" ->
                    ~o.success /\ o.message.text = "Port closed" /\ o.elapsed.measured
              [] netcall.event = "timedout" ->
                    o = Outcome(FALSE, "Connection timeout", <<>>, FALSE, netcall.timeout)
              [] OTHER ->
                    ~o.success /\ o.message.text = "str(e)" /\ o.elapsed = [measured |-> FALSE, secs |-> 0]

\* the fields of the lines of the raw listing; the lines with five or
\* more fields; the j-th of these
RawFields ==
    LET lines == SplitOn(cmd.stdout, "\n")
    IN  [k \in 1..Len(lines) |-> SplitWs(lines[k])]
LongRows(fields) == {k \in 1..Len(fields) : Len(fields[k]) >= 5}
RowOf(long, j) == CHOOSE k \in long : Cardinality({m \in long : m <= k}) = j

\* C8: for a successful listing whose rows of five or more fields all carry
\* a numeral in the fourth field, get_pod_status returns one record per such
\* row, in the order of the rows and made of the row's first five fields;
\* shorter and blank lines give no record and no error.
C8_OneRecordPerLongRow ==
    (pc \in {"branch", "crashed"} /\ cmd.kind = "exit" /\ cmd.rc = 0) =>
        LET fields == RawFields
            long   == LongRows(fields)
        IN  (\A k \in long : IsInt(fields[k][4])) =>
                /\ pods.kind = "return"
                /\ Len(pods.pods) = Cardinality(long)
                /\ \A j \in 1..Len(pods.pods) :
                      LET f == fields[RowOf(long, j)]
                      IN  /\ pods.pods[j].name = f[1]
                          /\ pods.pods[j].ready = f[2]
                          /\ pods.pods[j].status = f[3]
                          /\ IntToStr(pods.pods[j].restarts) = f[4]
                          /\ pods.pods[j].age = f[5]

C8_Witness ==
    /\ pc = "branch"
    /\ LongRows(RawFields) = {1, 3}
    /\ Len(RawFields[2]) = 4
    /\ Len(pods.pods) = 2
    /\ pods.pods[1].name = <<"q">>
    /\ pods.pods[1].restarts = 12
    /\ pods.pods[2].name = <<"p">>

\* C9 as stated: an interrupt that arrives while a probe is in flight lets
\* the probe finish: when the loop has stopped, the service in flight has its
\* outcome recorded and its tunnel has been terminated and waited for.
C9_ProbeSurvivesInterrupt ==
    (pc = "stopped" /\ interrupted \in {"settle", "net"}) =>
        /\ \E k \in 1..Len(table_data) : table_data[k].name = procs[Len(procs)].name
        /\ Stopped(procs[Len(procs)])

\* C9 as amended: an interrupt stops the loop where it arrives; control only
\* unwinds from then on; a probe in flight is cancelled, its service gets no
\* outcome; and when the interrupt arrived during the network call the
\* probe's tunnel has been terminated and waited for once the loop has stopped.
C9_InterruptCancelsProbe ==
    /\ interrupted # "no" =>
          /\ pc \in {"finally", "wait", "leave", "stopped"}
          /\ pc # "stopped" => pending.kind = "raise"
    /\ interrupted \in {"settle", "net"} =>
          /\ Len(table_data) = i - 1
          /\ procs[Len(procs)].name = services[i].name
          /\ pending.kind = "raise"
    /\ (pc = "stopped" /\ interrupted = "net") => Stopped(procs[Len(procs)])

C9_Witness ==
    /\ pc = "stopped"
    /\ interrupted = "net"
    /\ Stopped(procs[Len(procs)])
    /\ Len(table_data) < Len(procs)

\* C10 as stated: any two tunnels of two different services have different
\* local ports.
C10_LocalPortsDistinct ==
    \A k, l \in 1..Len(procs) : k # l => procs[k].local # procs[l].local

\* C10 as amended: a tunnel's local port is 8000 + the declared port, so two
\* tunnels share a local port exactly when their services declare the same
\* port; the only two services that do are email and order, and their
\* tunnels are never alive at the same time.
C10_LocalPortFollowsDeclaredPort ==
    \A k, l \in 1..Len(procs) :
        /\ procs[k].local = PortOffset + procs[k].remote
        /\ procs[k].local = procs[l].local <=> procs[k].remote = procs[l].remote
        /\ (k # l /\ procs[k].local = procs[l].local) =>
              /\ {procs[k].name, procs[l].name} = {"email", "order"}
              /\ procs[k].state = "reaped" \/ procs[l].state = "reaped"

C10_Witness ==
    \E k, l \in 1..Len(procs) :
        /\ procs[k].name = "email"
        /\ procs[l].name = "order"
        /\ procs[k].local = procs[l].local
====
